---------------------------- MODULE Spec2Model ----------------------------
(***************************************************************************)
(* Battery sites monitor: the strict, card-scoped ratio extraction         *)
(* (_extract_exact_ratio, check_site_batteries), one cycle over the        *)
(* configured sites (check_all_sites_once) and the continuous scheduler    *)
(* (main_continuous, sleep_with_stop) of                                   *)
(* "Auto_check Last ALL sites.02/04.09 ALL site with popup.py".            *)
(*                                                                         *)
(* A text is a sequence of one-character strings.  Python's None is the    *)
(* empty tuple and a present value x is <<x>>.                             *)
(***************************************************************************)
EXTENDS Integers, Sequences, FiniteSets, TLC

VARIABLES
    text,            \* _extract_exact_ratio: the text argument
    expected_total,  \* _extract_exact_ratio: the expected_total argument
    ratio,           \* _extract_exact_ratio: the returned value
    rpc,             \* "call" before the call, "done" after it, "idle" when unused
    doc,             \* the rendered dashboard page the driver holds
    results,         \* check_all_sites_once: the results list
    site_i,          \* check_all_sites_once: how many sites the for loop has taken
    pc,              \* where the cycle / the scheduler stands
    stop,            \* should_stop(): the STOP file exists
    interval,        \* settings.interval_sec
    driver,          \* a browser session is open (setup_driver .. driver.quit)
    clock,           \* ticks since the current loop iteration began
    cycle_start,     \* main_continuous: cycle_start, on the same clock
    elapsed,         \* main_continuous: elapsed, in ticks
    wait_sec,        \* main_continuous: wait_sec
    remaining,       \* sleep_with_stop: iterations of range() not yet taken
    exit_reason,     \* why main_continuous left its loop ("" while it runs)
    cycle_error,     \* the last cycle ended in "Cycle error"
    stop_phase,      \* history: "absent", or where the present STOP file appeared
    sleeps_since_stop, \* history: sleep steps completed since the STOP file appeared
    live_sessions,   \* history: sessions setup_driver returned and quit() has not ended
    summary,         \* what print_summary logged in this cycle (None: not called)
    alert,           \* the lines of the last popup_disconnected (<<>>: nothing emitted)
    popup_ret,       \* what popup_disconnected returned in this cycle (None: not called)
    alert_repeated,  \* history: this cycle's lines are those of the alert before
    loose,           \* the earlier check_site_batteries: site, card, attempts made, outcome
    nm               \* get_nm_for_site: site, card, time in the settle window, best, outcome

ratioVars == <<text, expected_total, ratio, rpc>>

cycleVars == <<doc, results, site_i>>

timeVars == <<clock, cycle_start, elapsed, wait_sec, remaining>>

stopVars == <<stop, stop_phase, sleeps_since_stop>>

outVars == <<summary, alert, popup_ret, alert_repeated>>

schedVars ==
    <<stop, interval, driver, clock, cycle_start, elapsed, wait_sec, remaining,
      exit_reason, cycle_error, stop_phase, sleeps_since_stop, live_sessions>>

vars ==
    <<text, expected_total, ratio, rpc, doc, results, site_i, pc,
      stop, interval, driver, clock, cycle_start, elapsed, wait_sec, remaining,
      exit_reason, cycle_error, stop_phase, sleeps_since_stop, live_sessions,
      summary, alert, popup_ret, alert_repeated, loose, nm>>

(***************************************************************************)
(* Bounds of the inputs.                                                   *)
(***************************************************************************)
MaxLen == 4
MaxNum == 2
MaxTotal == 2
TicksPerSecond == 2
MaxSetupTicks == 2
MaxCycleTicks == 8

\* Program constants of the card climb.
MinCardWidth == 220
MinCardHeight == 140
ClimbLimit == 10

None == <<>>

Some(x) == <<x>>

\* No page: the driver holds no document.
NoDoc == [parent |-> <<>>, own |-> <<>>, rect |-> <<>>]

\* The earlier check_site_batteries is not running.
NoLoose == [site |-> <<>>, card |-> 0, attempts |-> <<>>, out |-> <<>>]

\* get_nm_for_site is not running.
NoNm == [site |-> <<>>, card |-> 0, t |-> 0, best |-> <<>>, out |-> <<>>]

\* Nothing was logged or shown yet, and the other checks are idle.
NoOutput ==
    /\ summary = None /\ alert = <<>> /\ popup_ret = None /\ alert_repeated = FALSE
    /\ loose = NoLoose
    /\ nm = NoNm

\* The scheduler's variables where main_continuous does not run.
SchedulerIdle ==
    /\ stop = FALSE /\ interval = 0 /\ driver = FALSE
    /\ clock = 0 /\ cycle_start = 0 /\ elapsed = 0 /\ wait_sec = 0 /\ remaining = 0
    /\ exit_reason = "" /\ cycle_error = FALSE
    /\ stop_phase = "absent" /\ sleeps_since_stop = 0
    /\ live_sessions = 0

(***************************************************************************)
(* Character classes of Python's re: \d, \s, \w.                           *)
(***************************************************************************)
DigitChars == {"0", "1", "2", "3", "4", "5", "6", "7", "8", "9"}

SpaceChars == {" ", "\t", "\n", "\r"}

LetterChars ==
    {"a", "b", "c", "d", "e", "f", "g", "h", "i", "j", "k", "l", "m",
     "n", "o", "p", "q", "r", "s", "t", "u", "v", "w", "x", "y", "z",
     "A", "B", "C", "D", "E", "F", "G", "H", "I", "J", "K", "L", "M",
     "N", "O", "P", "Q", "R", "S", "T", "U", "V", "W", "X", "Y", "Z", "_"}

IsDigit(c) == c \in DigitChars

IsSpace(c) == c \in SpaceChars

IsWord(c) == c \in DigitChars \cup LetterChars

DigitVal(c) ==
    CASE c = "0" -> 0 [] c = "1" -> 1 [] c = "2" -> 2 [] c = "3" -> 3
      [] c = "4" -> 4 [] c = "5" -> 5 [] c = "6" -> 6 [] c = "7" -> 7
      [] c = "8" -> 8 [] c = "9" -> 9

DigitChar(n) ==
    CASE n = 0 -> "0" [] n = 1 -> "1" [] n = 2 -> "2" [] n = 3 -> "3"
      [] n = 4 -> "4" [] n = 5 -> "5" [] n = 6 -> "6" [] n = 7 -> "7"
      [] n = 8 -> "8" [] n = 9 -> "9"

\* int(s) of a string of decimal digits (leading zeros allowed).
RECURSIVE ToIntAcc(_, _, _)
ToIntAcc(s, i, acc) ==
    IF i > Len(s) THEN acc ELSE ToIntAcc(s, i + 1, acc * 10 + DigitVal(s[i]))

ToInt(s) == ToIntAcc(s, 1, 0)

\* str(n) of a natural number, as an f-string formats it.
RECURSIVE IntToStr(_)
IntToStr(n) ==
    IF n < 10 THEN <<DigitChar(n)>>
    ELSE IntToStr(n \div 10) \o <<DigitChar(n % 10)>>

(***************************************************************************)
(* _RATIO_RE = \b(\d+)\s*/\s*(\d+)\b and its findall.                      *)
(* Both \d+ are greedy and end where the next pattern element needs a      *)
(* non-digit (\s, "/" or \b after a digit), so a shorter digit run never   *)
(* matches: the maximal run is the only one the backtracking accepts.      *)
(***************************************************************************)
IsWordAt(s, i) == i >= 1 /\ i <= Len(s) /\ IsWord(s[i])

\* \b between positions i-1 and i.
WordBoundary(s, i) == IsWordAt(s, i - 1) # IsWordAt(s, i)

\* The last index of the run of digits that starts at i (s[i] is a digit).
RECURSIVE DigitRunEnd(_, _)
DigitRunEnd(s, i) ==
    IF i + 1 <= Len(s) /\ IsDigit(s[i + 1]) THEN DigitRunEnd(s, i + 1) ELSE i

\* The first index at or after i that holds no whitespace.
RECURSIVE SkipSpaces(_, _)
SkipSpaces(s, i) ==
    IF i <= Len(s) /\ IsSpace(s[i]) THEN SkipSpaces(s, i + 1) ELSE i

\* The match of _RATIO_RE that starts exactly at i: None, or
\* Some([n, d, end]) with the two groups converted by int().
MatchAt(s, i) ==
    IF ~(i <= Len(s) /\ IsDigit(s[i]) /\ WordBoundary(s, i)) THEN None
    ELSE LET a == DigitRunEnd(s, i)
             b == SkipSpaces(s, a + 1)
         IN  IF ~(b <= Len(s) /\ s[b] = "/") THEN None
             ELSE LET c == SkipSpaces(s, b + 1)
                  IN  IF ~(c <= Len(s) /\ IsDigit(s[c])) THEN None
                      ELSE LET e == DigitRunEnd(s, c)
                           IN  IF ~WordBoundary(s, e + 1) THEN None
                               ELSE Some([n |-> ToInt(SubSeq(s, i, a)),
                                          d |-> ToInt(SubSeq(s, c, e)),
                                          end |-> e])

\* _RATIO_RE.findall(text) from position i: leftmost, non-overlapping.
RECURSIVE FindAllFrom(_, _)
\* m is the match attempted at i: without one the scan moves one character on,
\* with one it resumes after the match.
FindAllStep(s, i, m) ==
    IF m = None THEN FindAllFrom(s, i + 1)
    ELSE <<[n |-> m[1].n, d |-> m[1].d]>> \o FindAllFrom(s, m[1].end + 1)

FindAllFrom(s, i) == IF i > Len(s) THEN <<>> ELSE FindAllStep(s, i, MatchAt(s, i))

FindAll(s) == FindAllFrom(s, 1)

\* max(seq, key=lambda p: p[0]): the first element with the largest n.
RECURSIVE MaxByN(_, _, _)
MaxByN(seq, i, best) ==
    IF i > Len(seq) THEN best
    ELSE MaxByN(seq, i + 1, IF seq[i].n > best.n THEN seq[i] ELSE best)

MaxPair(pool) == MaxByN(pool, 2, pool[1])

FormatRatio(n, d) == IntToStr(n) \o <<"/">> \o IntToStr(d)

FormatPair(p) == FormatRatio(p.n, p.d)

\* exact = [(n, d) for (n, d) in pairs if d == expected_total]
ExactPairs(pairs, total) == SelectSeq(pairs, LAMBDA p : p.d = total)

\* sane = [p for p in exact if p[0] <= expected_total]
SanePairs(exact, total) == SelectSeq(exact, LAMBDA p : p.n <= total)

\* sane or exact
SaneOrExact(sane, exact) == IF sane # <<>> THEN sane ELSE exact

\* The lines after exact is built: None without an exact pair, else the formatted
\* pair of largest numerator among the sane ones, or among all when none is sane.
SelectFromExact(exact, total) ==
    IF exact = <<>> THEN None
    ELSE Some(FormatPair(MaxPair(SaneOrExact(SanePairs(exact, total), exact))))

\* A variant that, with no exact-denominator pair, falls back to all the pairs.
SelectAnyDenominator(pairs, exact, total) ==
    IF pairs = <<>> THEN None
    ELSE IF exact = <<>> THEN Some(FormatPair(MaxPair(pairs)))
    ELSE SelectFromExact(exact, total)

ExtractAnyDenominator(txt, total) ==
    IF txt = <<>> THEN None
    ELSE SelectAnyDenominator(FindAll(txt), ExactPairs(FindAll(txt), total), total)

\* A variant that takes the largest numerator without preferring n <= total.
SelectNoSanePreference(exact) ==
    IF exact = <<>> THEN None ELSE Some(FormatPair(MaxPair(exact)))

ExtractNoSanePreference(txt, total) ==
    IF txt = <<>> THEN None
    ELSE SelectNoSanePreference(ExactPairs(FindAll(txt), total))

\* A variant that gives up when no exact pair has n <= total.
SelectSaneOnly(sane) ==
    IF sane = <<>> THEN None ELSE Some(FormatPair(MaxPair(sane)))

ExtractSaneOnly(txt, total) ==
    IF txt = <<>> THEN None
    ELSE SelectSaneOnly(SanePairs(ExactPairs(FindAll(txt), total), total))

ExtractExactRatio(txt, total) ==
    IF txt = <<>> THEN None
    ELSE SelectFromExact(ExactPairs(FindAll(txt), total), total)

(***************************************************************************)
(* n, m = map(int, ratio.split("/")) of check_all_sites_once.              *)
(***************************************************************************)
\* s.split("/"): the parts between the slashes.
RECURSIVE SplitFrom(_, _, _)
SplitFrom(s, i, cur) ==
    IF i > Len(s) THEN <<cur>>
    ELSE IF s[i] = "/" THEN <<cur>> \o SplitFrom(s, i + 1, <<>>)
    ELSE SplitFrom(s, i + 1, Append(cur, s[i]))

SplitSlash(s) == SplitFrom(s, 1, <<>>)

\* int() accepts a non-empty string of digits (signs and blanks do not occur here).
IsIntLiteral(s) == s # <<>> /\ \A i \in 1..Len(s) : IsDigit(s[i])

\* None when the unpacking or int() raises ValueError, else Some([n, d]).
ParseRatio(r) ==
    LET parts == SplitSlash(r)
    IN  IF Len(parts) = 2 /\ IsIntLiteral(parts[1]) /\ IsIntLiteral(parts[2])
        THEN Some([n |-> ToInt(parts[1]), d |-> ToInt(parts[2])])
        ELSE None

(***************************************************************************)
(* The inputs of the extraction.                                           *)
(***************************************************************************)
Alphabet == {"0", "1", "2", "/", " ", "a"}

RECURSIVE SeqsUpTo(_, _)
SeqsUpTo(S, n) ==
    IF n = 0 THEN {<<>>}
    ELSE LET shorter == SeqsUpTo(S, n - 1)
         IN  shorter \cup {Append(s, c) : s \in shorter, c \in S}

ShortTexts == SeqsUpTo(Alphabet, MaxLen)

Separators == {<<" ">>, <<"a">>, <<",", " ">>, <<"/">>}

\* Two ratios in one text, as a card with several ratios shows them.
TwoRatioTexts ==
    {FormatRatio(n1, d1) \o sep \o FormatRatio(n2, d2) :
        n1 \in 0..(MaxNum + 1), d1 \in 0..MaxNum,
        n2 \in 0..(MaxNum + 1), d2 \in 0..MaxNum, sep \in Separators}

Text_65_66_40_40 ==
    <<"6", "5", "/", "6", "6", " ", "c", "o", "n", "n", "e", "c", "t", "e", "d",
      ",", " ", "s", "e", "e", " ", "a", "l", "s", "o", " ", "4", "0", "/", "4", "0">>

Text_40_40 == <<"4", "0", "/", "4", "0">>

Text_99_66_66_66 == <<"9", "9", "/", "6", "6", " ", "6", "6", "/", "6", "6">>

Text_12_12 == <<"1", "2", " ", "/", " ", "1", "2">>

Text_5_0 == <<"5", "/", "0">>

ExampleTexts ==
    {Text_65_66_40_40, Text_40_40, Text_99_66_66_66, Text_12_12, Text_5_0}

Texts == ShortTexts \cup TwoRatioTexts \cup ExampleTexts

Totals == (0..MaxTotal) \cup {12, 66}

(***************************************************************************)
(* The extraction as a state machine: one call on any input.               *)
(***************************************************************************)
InitRatio ==
    /\ text \in Texts
    /\ expected_total \in Totals
    /\ ratio = None
    /\ rpc = "call"
    /\ doc = NoDoc /\ results = <<>> /\ site_i = 0 /\ pc = "none"
    /\ SchedulerIdle
    /\ NoOutput

Extract ==
    /\ rpc = "call"
    /\ ratio' = ExtractExactRatio(text, expected_total)
    /\ rpc' = "done"
    /\ UNCHANGED <<text, expected_total, cycleVars, pc, schedVars, outVars, loose, nm>>

NextRatio == Extract

SpecRatio == InitRatio /\ [][NextRatio]_vars

(***************************************************************************)
(* The rendered page.  Elements are 1..N in document order; parent[e] is   *)
(* the parent element (0 for the root), own[e] the element's own text      *)
(* node, rect[e] its bounding rectangle.                                   *)
(***************************************************************************)
Elements(d) == 1..Len(d.parent)

RECURSIVE IsInSubtree(_, _, _)
IsInSubtree(d, e, top) ==
    IF e = top THEN TRUE
    ELSE IF e = 0 THEN FALSE
    ELSE IsInSubtree(d, d.parent[e], top)

Contains(s, c) == \E i \in 1..Len(s) : s[i] = c

\* Leading whitespace removed.
RECURSIVE LStrip(_)
LStrip(s) == IF s # <<>> /\ IsSpace(Head(s)) THEN LStrip(Tail(s)) ELSE s

\* Trailing whitespace removed.
RECURSIVE RStrip(_)
RStrip(s) ==
    IF s # <<>> /\ IsSpace(s[Len(s)]) THEN RStrip(SubSeq(s, 1, Len(s) - 1)) ELSE s

\* str.strip()
Strip(s) == RStrip(LStrip(s))

\* XPath normalize-space: stripped, inner runs of whitespace become one blank.
RECURSIVE CollapseSpaces(_, _)
CollapseSpaces(s, i) ==
    IF i > Len(s) THEN <<>>
    ELSE IF IsSpace(s[i])
         THEN IF i > 1 /\ IsSpace(s[i - 1]) THEN CollapseSpaces(s, i + 1)
              ELSE <<" ">> \o CollapseSpaces(s, i + 1)
    ELSE <<s[i]>> \o CollapseSpaces(s, i + 1)

NormalizeSpace(s) == CollapseSpaces(Strip(s), 1)

\* element.get_attribute("innerText"): the own texts of the element and its
\* descendants, in document order, one line each.
JoinLine(line, rest) == IF rest = <<>> THEN line ELSE line \o <<"\n">> \o rest

RECURSIVE InnerTextFrom(_, _, _)
InnerTextFrom(d, top, e) ==
    IF e > Len(d.parent) THEN <<>>
    ELSE IF IsInSubtree(d, e, top) /\ d.own[e] # <<>>
         THEN JoinLine(d.own[e], InnerTextFrom(d, top, e + 1))
    ELSE InnerTextFrom(d, top, e + 1)

InnerText(d, top) == InnerTextFrom(d, top, 1)

\* XPath string value of an element holds '/': some text node below it does.
StringValueHasSlash(d, top) ==
    \E e \in Elements(d) : IsInSubtree(d, e, top) /\ Contains(d.own[e], "/")

\* //*[normalize-space(text())='label']: the first such element, 0 when none.
FindTitle(d, label) ==
    LET hits == {e \in Elements(d) : NormalizeSpace(d.own[e]) = label}
    IN  IF hits = {} THEN 0 ELSE CHOOSE e \in hits : \A f \in hits : e <= f

IsCardSized(r) == r.width > MinCardWidth /\ r.height > MinCardHeight

\* The for loop of the climb, hops iterations left: the card found, 0 when the
\* loop ends with card None, or the exception an element lookup raised.
RECURSIVE ClimbFrom(_, _, _, _)
ClimbFrom(d, cur, hops, stale) ==
    IF hops = 0 THEN [exc |-> "", card |-> 0]
    ELSE IF cur = stale THEN [exc |-> "StaleElementReferenceException", card |-> 0]
    ELSE LET parent == d.parent[cur]
         IN  IF parent = 0 THEN [exc |-> "NoSuchElementException", card |-> 0]
             ELSE IF parent = stale
                  THEN [exc |-> "StaleElementReferenceException", card |-> 0]
             ELSE IF IsCardSized(d.rect[parent]) THEN [exc |-> "", card |-> parent]
             ELSE ClimbFrom(d, parent, hops - 1, stale)

\* The card of a title: what the climb gave, or the title's parent when the
\* loop ended with no card-sized ancestor.
CardOrParent(d, title, up) ==
    IF up.exc # "" \/ up.card # 0 THEN up
    ELSE [exc |-> "", card |-> d.parent[title]]

FindCard(d, title, stale) ==
    CardOrParent(d, title, ClimbFrom(d, title, ClimbLimit, stale))

\* a if it is a ratio, else b.
OrElse(a, b) == IF a # None THEN a ELSE b

\* val = (el.get_attribute("innerText") or el.text or "").strip(), skipped when
\* empty, else _extract_exact_ratio(val, expected_total).
RatioOfValue(val, total) ==
    IF val = <<>> THEN None ELSE ExtractExactRatio(val, total)

\* Step 2 of check_site_batteries over the candidates from element e on: the
\* first descendant of the card, holding a slash, whose inner text gives an
\* exact ratio.  A stale descendant is skipped.
RECURSIVE FirstDescendantRatio(_, _, _, _, _)
FirstDescendantRatio(d, card, e, total, stale) ==
    IF e > Len(d.parent) THEN None
    ELSE IF e = card \/ ~IsInSubtree(d, e, card) \/ ~StringValueHasSlash(d, e)
              \/ e = stale
         THEN FirstDescendantRatio(d, card, e + 1, total, stale)
    ELSE OrElse(RatioOfValue(Strip(InnerText(d, e)), total),
                FirstDescendantRatio(d, card, e + 1, total, stale))

Raised(exc) == [exc |-> exc, ratio |-> None]

\* A variant that returns a default ratio where the search found none.
ReturnOrDefault(r) ==
    IF r # None THEN [exc |-> "", ratio |-> r]
    ELSE [exc |-> "", ratio |-> Some(<<"0", "/", "0">>)]

\* return ratio, or raise TimeoutException when there is none.
ReturnOrTimeout(r) ==
    IF r # None THEN [exc |-> "", ratio |-> r] ELSE Raised("TimeoutException")

\* A variant of the card search that accepts a ratio of any denominator.
CheckInCardLoose(d, up, total, stale) ==
    IF up.exc # "" THEN Raised(up.exc)
    ELSE ReturnOrTimeout(ExtractAnyDenominator(InnerText(d, up.card), total))

\* A variant that, finding nothing in the card, scans every element of the page.
CheckInCardThenPage(d, up, total, stale) ==
    IF up.exc # "" THEN Raised(up.exc)
    ELSE IF up.card = stale THEN Raised("StaleElementReferenceException")
    ELSE ReturnOrTimeout(
             OrElse(ExtractExactRatio(InnerText(d, up.card), total),
                    FirstDescendantRatio(d, 1, 1, total, stale)))

\* Steps 1 and 2 inside the card the climb gave (or the exception it raised).
CheckInCard(d, up, total, stale) ==
    IF up.exc # "" THEN Raised(up.exc)
    ELSE IF up.card = stale THEN Raised("StaleElementReferenceException")
    ELSE ReturnOrTimeout(
             OrElse(ExtractExactRatio(InnerText(d, up.card), total),
                    FirstDescendantRatio(d, up.card, 1, total, stale)))

\* The check once the title wait ended: title is 0 when it timed out.
CheckFromTitle(d, title, total, stale) ==
    IF title = 0 THEN Raised("TimeoutException")
    ELSE CheckInCard(d, FindCard(d, title, stale), total, stale)

\* check_site_batteries: the returned ratio, or the exception raised.  stale is
\* the element whose reference the page invalidated during the check (0: none).
CheckSiteBatteries(d, label, total, stale) ==
    CheckFromTitle(d, FindTitle(d, label), total, stale)

(***************************************************************************)
(* check_all_sites_once: the body of its for loop.                         *)
(***************************************************************************)
\* A variant whose success record carries the counts but no verdict.
SuccessResultWithoutVerdict(label, r, p) ==
    [site |-> label, ratio |-> Some(r), status |-> "success", error |-> "",
     current |-> Some(p.n), total |-> Some(p.d), all_connected |-> None]

\* results.append({... "status": "success", "current": n, "total": m,
\* "all_connected": (n == m)})
SuccessResult(label, r, p) ==
    [site |-> label, ratio |-> Some(r), status |-> "success", error |-> "",
     current |-> Some(p.n), total |-> Some(p.d), all_connected |-> Some(p.n = p.d)]

\* A variant whose error record defaults to 0 of 0 batteries, not connected.
ErrorResultAsDisconnected(label, exc) ==
    [site |-> label, ratio |-> None, status |-> "error", error |-> exc,
     current |-> Some(0), total |-> Some(0), all_connected |-> Some(FALSE)]

ErrorResult(label, exc) ==
    [site |-> label, ratio |-> None, status |-> "error", error |-> exc,
     current |-> None, total |-> None, all_connected |-> None]

\* n, m = map(int, ratio.split("/")) gave p: the success record, or the error
\* record of the ValueError.
ParsedResult(label, r, p) ==
    IF p = None THEN ErrorResult(label, "ValueError")
    ELSE SuccessResult(label, r, p[1])

\* The record appended for a site whose check ended as out.
ResultOf(label, out) ==
    IF out.exc # "" THEN ErrorResult(label, out.exc)
    ELSE ParsedResult(label, out.ratio[1], ParseRatio(out.ratio[1]))

\* A variant whose except clause records nothing for the failed site.
AppendUnlessFailed(res, r) == IF r.status = "error" THEN res ELSE Append(res, r)

CheckOneSiteDropsFailure(d, site, stale, res) ==
    AppendUnlessFailed(res,
        ResultOf(site.label,
                 CheckSiteBatteries(d, site.label, site.expected_total, stale)))

\* The results list after the loop body ran for one site.
CheckOneSite(d, site, stale, res) ==
    Append(res,
        ResultOf(site.label,
                 CheckSiteBatteries(d, site.label, site.expected_total, stale)))

(***************************************************************************)
(* The configured sites and the pages a cycle may meet.                    *)
(***************************************************************************)
Sites ==
    <<[label |-> <<"a">>, expected_total |-> 2],
      [label |-> <<"a", "b">>, expected_total |-> 2],
      [label |-> <<"b">>, expected_total |-> 3]>>

BigRect == [width |-> 300, height |-> 200]

LineRect == [width |-> 300, height |-> 20]

LeafRect == [width |-> 100, height |-> 20]

TitleTexts == {<<"a">>, <<"a", "b">>, <<"b">>, <<" ", "a">>}

ValueTexts ==
    {<<"2", "/", "2">>, <<"1", "/", "2">>, <<"2", "/", "3">>,
     <<"3", "/", "2">>, <<"1", "/">>}

BoxRects == {BigRect, LineRect}

\* root(1) holds two cards: 2 = {title 3, value 4} and 5 = {title 6, value 7}.
TwoCardDocs ==
    {[parent |-> <<0, 1, 2, 2, 1, 5, 5>>,
      own |-> <<<<>>, <<>>, t1, v1, <<>>, t2, v2>>,
      rect |-> <<r1, r2, LeafRect, LeafRect, r3, LeafRect, LeafRect>>] :
        t1 \in TitleTexts, v1 \in ValueTexts, t2 \in TitleTexts, v2 \in ValueTexts,
        r1 \in BoxRects, r2 \in BoxRects, r3 \in BoxRects}

\* root(1) > wrapper 2 > inner box 3 = {title 4, value 5}; the wrapper also
\* holds title 6 and value 7 directly.
NestedDocs ==
    {[parent |-> <<0, 1, 2, 3, 3, 2, 2>>,
      own |-> <<<<>>, <<>>, <<>>, t1, v1, t2, v2>>,
      rect |-> <<r1, r2, r3, LeafRect, LeafRect, LeafRect, LeafRect>>] :
        t1 \in TitleTexts, v1 \in ValueTexts, t2 \in TitleTexts, v2 \in ValueTexts,
        r1 \in BoxRects, r2 \in BoxRects, r3 \in BoxRects}

Docs == TwoCardDocs \cup NestedDocs

(***************************************************************************)
(* One cycle, check_all_sites_once, on any page.                           *)
(***************************************************************************)
InitCycle ==
    /\ text = <<>> /\ expected_total = 0 /\ ratio = None /\ rpc = "idle"
    /\ doc \in Docs
    /\ results = <<>>
    /\ site_i = 0
    /\ pc = "check"
    /\ SchedulerIdle
    /\ NoOutput

CheckNextSite ==
    /\ pc = "check"
    /\ site_i < Len(Sites)
    /\ \E stale \in {0} \cup Elements(doc) :
           results' = CheckOneSite(doc, Sites[site_i + 1], stale, results)
    /\ site_i' = site_i + 1
    /\ UNCHANGED <<ratioVars, loose, nm, outVars, doc, pc, schedVars>>

ReturnResults ==
    /\ pc = "check"
    /\ site_i = Len(Sites)
    /\ pc' = "returned"
    /\ UNCHANGED <<ratioVars, loose, nm, outVars, cycleVars, schedVars>>

NextCycle == CheckNextSite \/ ReturnResults

SpecCycle == InitCycle /\ [][NextCycle]_vars

(***************************************************************************)
(* print_summary and popup_disconnected.                                   *)
(***************************************************************************)
\* str(n) of an integer, as an f-string formats it.
FormatInt(n) == IF n < 0 THEN <<"-">> \o IntToStr(0 - n) ELSE IntToStr(n)

\* r.get("all_connected") is True
IsFullyConnected(r) == r.all_connected = Some(TRUE)

\* r.get("all_connected") is False
IsDisconnected(r) == r.all_connected = Some(FALSE)

\* r.get("status") == "error"
IsError(r) == r.status = "error"

\* f"  - {r['site']}: {r['current']}/{r['total']} (disc: {r['total'] - r['current']})"
SummaryLine(r) ==
    <<" ", " ", "-", " ">> \o r.site \o <<":", " ">> \o FormatInt(r.current[1])
        \o <<"/">> \o FormatInt(r.total[1])
        \o <<" ", "(", "d", "i", "s", "c", ":", " ">>
        \o FormatInt(r.total[1] - r.current[1]) \o <<")">>

SummaryLines(sel) == [i \in 1..Len(sel) |-> SummaryLine(sel[i])]

\* print_summary: the three counts and the lines logged under
\* "Disconnected sites:".
PrintSummary(res) ==
    [ok |-> Len(SelectSeq(res, IsFullyConnected)),
     err |-> Len(SelectSeq(res, IsError)),
     disc |-> Len(SelectSeq(res, IsDisconnected)),
     listed |-> SummaryLines(SelectSeq(res, IsDisconnected))]

\* r.get("status") == "success" and r.get("all_connected") is False
IsAlerted(r) == r.status = "success" /\ r.all_connected = Some(FALSE)

\* A variant whose deficit is current - total.
AlertLineDeficitSwapped(r) ==
    r.site \o <<":", " ">> \o FormatInt(r.current[1]) \o <<"/">> \o FormatInt(r.total[1])
        \o <<" ", "(", "d", "i", "s", "c", "o", "n", "n", "e", "c", "t", "e", "d", ":", " ">>
        \o FormatInt(r.current[1] - r.total[1]) \o <<")">>

\* disc = r["total"] - r["current"];
\* f"{r['site']}: {r['current']}/{r['total']} (disconnected: {disc})"
AlertLine(r) ==
    r.site \o <<":", " ">> \o FormatInt(r.current[1]) \o <<"/">> \o FormatInt(r.total[1])
        \o <<" ", "(", "d", "i", "s", "c", "o", "n", "n", "e", "c", "t", "e", "d", ":", " ">>
        \o FormatInt(r.total[1] - r.current[1]) \o <<")">>

AlertLines(sel) == [i \in 1..Len(sel) |-> AlertLine(sel[i])]

\* popup_disconnected: the list lines.
PopupLines(res) == AlertLines(SelectSeq(res, IsAlerted))

\* popup_disconnected: False when there are no lines, else True when the
\* message box was shown and False when it could only be printed.
PopupReturn(lines, shown) == IF lines = <<>> THEN FALSE ELSE shown

(***************************************************************************)
(* main_continuous and sleep_with_stop.  Time is counted in ticks,         *)
(* TicksPerSecond to the second; time.time() reads the clock.              *)
(***************************************************************************)
Max(a, b) == IF a >= b THEN a ELSE b

Intervals == {0, 3, 10}

\* The pages a login of the scheduler may open: the two site cards, sites
\* 'a' and 'b' shown, 'ab' not on the page.
SchedDocs ==
    {d \in TwoCardDocs :
        /\ d.own[3] = <<"a">> /\ d.own[6] = <<"b">>
        /\ d.own[4] \in {<<"2", "/", "2">>, <<"1", "/", "2">>}
        /\ d.own[7] = <<"2", "/", "3">>
        /\ \A e \in {1, 2, 5} : d.rect[e] = BigRect}

\* int(elapsed): whole seconds of a duration in ticks.
IntSeconds(ticks) == ticks \div TicksPerSecond

\* A variant that sleeps the whole interval after every cycle.
WaitSecondsAdditive(intv, el) == intv

\* wait_sec = max(0, interval - int(elapsed))
WaitSeconds(intv, el) == Max(0, intv - IntSeconds(el))

\* A variant of sleep_with_stop that never looks at the STOP file.
SleepIgnoresStop(stopNow) == FALSE

\* sleep_with_stop: if should_stop(): break
SleepBreaks(stopNow) == stopNow

InitSched ==
    /\ text = <<>> /\ expected_total = 0 /\ ratio = None /\ rpc = "idle"
    /\ doc = NoDoc /\ results = <<>> /\ site_i = 0
    /\ pc = "loop_top"
    /\ stop \in BOOLEAN
    /\ stop_phase = IF stop THEN "start" ELSE "absent"
    /\ sleeps_since_stop = 0
    /\ interval \in Intervals
    /\ driver = FALSE
    /\ live_sessions = 0
    /\ clock = 0 /\ cycle_start = 0 /\ elapsed = 0 /\ wait_sec = 0 /\ remaining = 0
    /\ exit_reason = "" /\ cycle_error = FALSE
    /\ NoOutput

\* A variant of the loop head that begins a cycle without looking at the STOP
\* file.
LoopTopIgnoresStop ==
    /\ pc = "loop_top"
    /\ pc' = "setup"
    /\ UNCHANGED <<ratioVars, loose, nm, outVars, cycleVars, stopVars, interval, driver, live_sessions,
                   timeVars, exit_reason, cycle_error>>

\* while True: if should_stop(): break
LoopTop ==
    /\ pc = "loop_top"
    /\ IF stop THEN pc' = "exited" /\ exit_reason' = "stop_before_cycle"
               ELSE pc' = "setup" /\ exit_reason' = exit_reason
    /\ UNCHANGED <<ratioVars, loose, nm, outVars, cycleVars, stopVars, interval, driver, live_sessions, timeVars,
                   cycle_error>>

\* driver = setup_driver(...); cycle_start = time.time()
SetupDriver ==
    /\ pc = "setup"
    /\ driver' = TRUE
    /\ live_sessions' = live_sessions + 1
    /\ cycle_start' = clock
    /\ cycle_error' = FALSE
    /\ pc' = "login"
    /\ UNCHANGED <<ratioVars, loose, nm, outVars, cycleVars, stopVars, interval, clock, elapsed,
                   wait_sec, remaining, exit_reason>>

\* setup_driver raises: the call stands outside the inner try, so the outer
\* "except Exception" logs FATAL and main_continuous returns.
SetupDriverRaises ==
    /\ pc = "setup"
    /\ pc' = "exited"
    /\ exit_reason' = "fatal"
    /\ UNCHANGED <<ratioVars, loose, nm, outVars, cycleVars, stopVars, interval, driver, live_sessions, timeVars,
                   cycle_error>>

\* login(driver, ...) returns: the dashboard page is rendered.
Login ==
    /\ pc = "login"
    /\ doc' \in SchedDocs
    /\ results' = <<>>
    /\ site_i' = 0
    /\ pc' = "check"
    /\ UNCHANGED <<ratioVars, loose, nm, outVars, schedVars>>

\* login raises (or anything else inside the inner try): "Cycle error" is
\* logged and the finally clause runs.
CycleRaises ==
    /\ pc \in {"login", "check"}
    /\ cycle_error' = TRUE
    /\ pc' = "quit"
    /\ UNCHANGED <<ratioVars, loose, nm, outVars, cycleVars, stopVars, interval, driver, live_sessions, timeVars,
                   exit_reason>>

\* A variant that does not alert again what the alert before already listed.
SummarizeSuppressesRepeat ==
    /\ pc = "check"
    /\ site_i = Len(Sites)
    /\ summary' = Some(PrintSummary(results))
    /\ alert' = IF PopupLines(results) = alert THEN <<>> ELSE PopupLines(results)
    /\ alert_repeated' = (alert # <<>> /\ PopupLines(results) = alert)
    /\ \E shown \in BOOLEAN :
           popup_ret' = Some(PopupReturn(PopupLines(results), shown))
    /\ pc' = "quit"
    /\ UNCHANGED <<ratioVars, loose, nm, cycleVars, schedVars>>

\* A variant of the cycle that looks at the STOP file between two sites and
\* gives the cycle up, without summary or alert, when the file is there.
SummarizeOrAbortOnStop ==
    /\ pc = "check"
    /\ \/ /\ site_i = Len(Sites)
          /\ summary' = Some(PrintSummary(results))
          /\ alert' = PopupLines(results)
          /\ alert_repeated' = (alert # <<>> /\ PopupLines(results) = alert)
          /\ \E shown \in BOOLEAN :
                 popup_ret' = Some(PopupReturn(PopupLines(results), shown))
       \/ /\ site_i < Len(Sites)
          /\ stop
          /\ UNCHANGED outVars
    /\ pc' = "quit"
    /\ UNCHANGED <<ratioVars, loose, nm, cycleVars, schedVars>>

\* check_all_sites_once returned: print_summary, popup_disconnected, log.
Summarize ==
    /\ pc = "check"
    /\ site_i = Len(Sites)
    /\ summary' = Some(PrintSummary(results))
    /\ alert' = PopupLines(results)
    /\ alert_repeated' = (alert # <<>> /\ PopupLines(results) = alert)
    /\ \E shown \in BOOLEAN :
           popup_ret' = Some(PopupReturn(PopupLines(results), shown))
    /\ pc' = "quit"
    /\ UNCHANGED <<ratioVars, loose, nm, cycleVars, schedVars>>

\* A variant without the finally clause: the session is released only when the
\* cycle raised nothing.
DriverQuitOnSuccessOnly ==
    /\ pc = "quit"
    /\ driver' = (driver /\ cycle_error)
    /\ live_sessions' = IF cycle_error THEN live_sessions ELSE live_sessions - 1
    /\ doc' = NoDoc
    /\ results' = <<>>
    /\ site_i' = 0
    /\ summary' = None
    /\ popup_ret' = None
    /\ alert_repeated' = FALSE
    /\ pc' = "after_cycle"
    /\ UNCHANGED <<ratioVars, loose, nm, alert, stopVars, interval, timeVars, exit_reason, cycle_error>>

\* finally: driver.quit().  The page is gone with the session, and results is
\* not read again before the next cycle assigns it; what the cycle logged is
\* kept no longer, the lines it alerted stay until the next alert.
DriverQuit ==
    /\ pc = "quit"
    /\ driver' = FALSE
    /\ live_sessions' = live_sessions - 1
    /\ doc' = NoDoc
    /\ results' = <<>>
    /\ site_i' = 0
    /\ summary' = None
    /\ popup_ret' = None
    /\ alert_repeated' = FALSE
    /\ pc' = "after_cycle"
    /\ UNCHANGED <<ratioVars, loose, nm, alert, stopVars, interval, timeVars, exit_reason, cycle_error>>

\* elapsed = time.time() - cycle_start; wait_sec = max(0, interval - int(elapsed));
\* sleep_with_stop(wait_sec) builds range(int(wait_seconds)).
ComputeWait ==
    /\ pc = "after_cycle"
    /\ elapsed' = clock - cycle_start
    /\ wait_sec' = WaitSeconds(interval, clock - cycle_start)
    /\ remaining' = WaitSeconds(interval, clock - cycle_start)
    /\ pc' = "sleep_check"
    /\ UNCHANGED <<ratioVars, loose, nm, outVars, cycleVars, stopVars, interval, driver, live_sessions, clock,
                   cycle_start, exit_reason, cycle_error>>

\* One pass of the for loop of sleep_with_stop, up to the call of time.sleep(1):
\* the range is exhausted, or should_stop() breaks, or the sleep begins.
SleepCheck ==
    /\ pc = "sleep_check"
    /\ pc' = IF remaining = 0 \/ SleepBreaks(stop) THEN "post_wait" ELSE "sleeping"
    /\ UNCHANGED <<ratioVars, loose, nm, outVars, cycleVars, schedVars>>

\* time.sleep(1) returns.
SleepWake ==
    /\ pc = "sleeping"
    /\ clock' = clock + TicksPerSecond
    /\ remaining' = remaining - 1
    /\ sleeps_since_stop' = IF stop THEN sleeps_since_stop + 1 ELSE 0
    /\ pc' = "sleep_check"
    /\ UNCHANGED <<ratioVars, loose, nm, outVars, cycleVars, stop, stop_phase, interval, driver, live_sessions,
                   cycle_start, elapsed, wait_sec, exit_reason, cycle_error>>

\* After the wait: if should_stop(): break, else the next pass of while True.
PostWait ==
    /\ pc = "post_wait"
    /\ IF stop
       THEN pc' = "exited" /\ exit_reason' = "stop_during_wait" /\ clock' = clock
       ELSE pc' = "loop_top" /\ exit_reason' = exit_reason /\ clock' = 0
    /\ UNCHANGED <<ratioVars, loose, nm, outVars, cycleVars, stopVars, interval, driver, live_sessions, cycle_start,
                   elapsed, wait_sec, remaining, cycle_error>>

\* The operator creates the STOP file.
CreateStop ==
    /\ pc # "exited"
    /\ ~stop
    /\ stop' = TRUE
    /\ stop_phase' = IF pc \in {"sleep_check", "sleeping"} THEN "wait"
                      ELSE IF pc \in {"login", "check", "quit"} THEN "cycle"
                      ELSE "other"
    /\ sleeps_since_stop' = 0
    /\ UNCHANGED <<ratioVars, loose, nm, outVars, cycleVars, pc, interval, driver, live_sessions, timeVars,
                   exit_reason, cycle_error>>

\* The operator removes the STOP file.
RemoveStop ==
    /\ pc # "exited"
    /\ stop
    /\ stop' = FALSE
    /\ stop_phase' = "absent"
    /\ sleeps_since_stop' = 0
    /\ UNCHANGED <<ratioVars, loose, nm, outVars, cycleVars, pc, interval, driver, live_sessions, timeVars,
                   exit_reason, cycle_error>>

\* Time passes while the driver starts (before cycle_start is read) and while
\* the cycle works (login, site checks, summary, quit).  The clock is read
\* again only after the finally clause, so the time of a cycle is let pass
\* where its work has ended.
Tick ==
    /\ \/ pc = "setup" /\ clock < MaxSetupTicks
       \/ pc = "quit" /\ clock - cycle_start < MaxCycleTicks
    /\ clock' = clock + 1
    /\ UNCHANGED <<ratioVars, loose, nm, outVars, cycleVars, pc, stopVars, interval, driver, live_sessions,
                   cycle_start, elapsed, wait_sec, remaining, exit_reason, cycle_error>>

Next ==
    \/ LoopTop
    \/ SetupDriver
    \/ SetupDriverRaises
    \/ Login
    \/ CycleRaises
    \/ CheckNextSite
    \/ Summarize
    \/ DriverQuit
    \/ ComputeWait
    \/ SleepCheck
    \/ SleepWake
    \/ PostWait
    \/ CreateStop
    \/ RemoveStop
    \/ Tick

Spec == InitSched /\ [][Next]_vars

(***************************************************************************)
(* main: the single pass.                                                  *)
(***************************************************************************)
mainIdleVars ==
    <<stop, stop_phase, sleeps_since_stop, interval, clock, cycle_start, elapsed,
      wait_sec, remaining>>

InitMain ==
    /\ text = <<>> /\ expected_total = 0 /\ ratio = None /\ rpc = "idle"
    /\ doc = NoDoc /\ results = <<>> /\ site_i = 0
    /\ pc = "main_setup"
    /\ SchedulerIdle
    /\ NoOutput

\* driver = setup_driver(headless=headless)
MainSetupDriver ==
    /\ pc = "main_setup"
    /\ driver' = TRUE
    /\ live_sessions' = live_sessions + 1
    /\ pc' = "main_login"
    /\ UNCHANGED <<ratioVars, loose, nm, outVars, cycleVars, mainIdleVars, exit_reason, cycle_error>>

\* setup_driver raises, before the try: the exception leaves main.
MainSetupDriverRaises ==
    /\ pc = "main_setup"
    /\ exit_reason' = "raised"
    /\ pc' = "main_exit"
    /\ UNCHANGED <<ratioVars, loose, nm, outVars, cycleVars, mainIdleVars, driver, live_sessions,
                   cycle_error>>

\* login(driver, auth, timeout) returns: the dashboard page is rendered.
MainLogin ==
    /\ pc = "main_login"
    /\ doc' \in Docs
    /\ pc' = "check"
    /\ UNCHANGED <<ratioVars, loose, nm, outVars, results, site_i, schedVars>>

\* login raises: the finally clause runs with the exception pending.
MainLoginRaises ==
    /\ pc = "main_login"
    /\ cycle_error' = TRUE
    /\ pc' = "main_quit"
    /\ UNCHANGED <<ratioVars, loose, nm, outVars, cycleVars, mainIdleVars, driver, live_sessions,
                   exit_reason>>

\* A variant in which a failed site makes the pass fail after the checks.
MainSummarizeFailsOnError ==
    /\ pc = "returned"
    /\ summary' = Some(PrintSummary(results))
    /\ alert' = PopupLines(results)
    /\ alert_repeated' = (alert # <<>> /\ PopupLines(results) = alert)
    /\ \E shown \in BOOLEAN :
           popup_ret' = Some(PopupReturn(PopupLines(results), shown))
    /\ cycle_error' = (SelectSeq(results, IsError) # <<>>)
    /\ pc' = "main_quit"
    /\ UNCHANGED <<ratioVars, loose, nm, cycleVars, mainIdleVars, driver, live_sessions,
                   exit_reason>>

\* print_summary(results); popup_disconnected(results)
MainSummarize ==
    /\ pc = "returned"
    /\ summary' = Some(PrintSummary(results))
    /\ alert' = PopupLines(results)
    /\ alert_repeated' = (alert # <<>> /\ PopupLines(results) = alert)
    /\ \E shown \in BOOLEAN :
           popup_ret' = Some(PopupReturn(PopupLines(results), shown))
    /\ pc' = "main_quit"
    /\ UNCHANGED <<ratioVars, loose, nm, cycleVars, schedVars>>

\* finally: driver.quit(); then main returns, or the pending exception leaves it.
MainQuit ==
    /\ pc = "main_quit"
    /\ driver' = FALSE
    /\ live_sessions' = live_sessions - 1
    /\ exit_reason' = IF cycle_error THEN "raised" ELSE "returned"
    /\ pc' = "main_exit"
    /\ UNCHANGED <<ratioVars, loose, nm, outVars, cycleVars, mainIdleVars, cycle_error>>

NextMain ==
    \/ MainSetupDriver
    \/ MainSetupDriverRaises
    \/ MainLogin
    \/ MainLoginRaises
    \/ CheckNextSite
    \/ ReturnResults
    \/ MainSummarize
    \/ MainQuit

SpecMain == InitMain /\ [][NextMain]_vars

(***************************************************************************)
(* check_site_batteries of "02.09 all most sites.py": the label matched    *)
(* case-insensitively by containment, the card the nearest div ancestor,   *)
(* then the card's text, its descendants, the scan of the whole page and,  *)
(* in the handler of TimeoutException, the partial label match.            *)
(* Pages carry a tag per element.                                          *)
(***************************************************************************)
\* str.lower(), and translate(.., 'ABC..', 'abc..') of the XPath.
LowerChar(c) == CASE c = "A" -> "a" [] c = "B" -> "b" [] OTHER -> c

Lower(s) == [i \in 1..Len(s) |-> LowerChar(s[i])]

\* sub in s
ContainsSub(s, sub) ==
    \E i \in 1..(Len(s) - Len(sub) + 1) : SubSeq(s, i, i + Len(sub) - 1) = sub

\* XPath string value: the text nodes below the element, concatenated.
RECURSIVE StringValueFrom(_, _, _)
StringValueFrom(d, top, e) ==
    IF e > Len(d.parent) THEN <<>>
    ELSE IF IsInSubtree(d, e, top) THEN d.own[e] \o StringValueFrom(d, top, e + 1)
    ELSE StringValueFrom(d, top, e + 1)

StringValue(d, top) == StringValueFrom(d, top, 1)

\* //*[contains(translate(normalize-space(text()), ..), site_name.lower())]:
\* the first such element, 0 when the wait times out.
LooseMatches(d, e, label) ==
    d.own[e] # <<>> /\ ContainsSub(Lower(NormalizeSpace(d.own[e])), Lower(label))

FirstOf(hits) == IF hits = {} THEN 0 ELSE CHOOSE e \in hits : \A f \in hits : e <= f

LooseFindTitle(d, label) == FirstOf({e \in Elements(d) : LooseMatches(d, e, label)})

\* ./ancestor::*[contains(@class, ..) or self::div][1], 0 when there is none.
RECURSIVE NearestDivAncestor(_, _)
NearestDivAncestor(d, e) ==
    IF d.parent[e] = 0 THEN 0
    ELSE IF d.tag[d.parent[e]] = "div" THEN d.parent[e]
    ELSE NearestDivAncestor(d, d.parent[e])

\* try: parent = ...find_element(...) except: parent = site_el
AncestorOrSelf(anc, e) == IF anc = 0 THEN e ELSE anc

LooseCard(d, e) == AncestorOrSelf(NearestDivAncestor(d, e), e)

\* for el in parent.find_elements(".//*"): the first ratio of a descendant,
\* the value stripped and skipped when empty.
RECURSIVE LooseDescendantRatio(_, _, _, _)
LooseDescendantRatio(d, card, e, total) ==
    IF e > Len(d.parent) THEN None
    ELSE IF e = card \/ ~IsInSubtree(d, e, card)
         THEN LooseDescendantRatio(d, card, e + 1, total)
    ELSE OrElse(RatioOfValue(Strip(InnerText(d, e)), total),
                LooseDescendantRatio(d, card, e + 1, total))

\* //*[contains(normalize-space(), '/{expected_total}')]: the first ratio of
\* such an element anywhere on the page.
RECURSIVE PageScanRatio(_, _, _)
PageScanRatio(d, e, total) ==
    IF e > Len(d.parent) THEN None
    ELSE IF ~ContainsSub(NormalizeSpace(StringValue(d, e)), <<"/">> \o IntToStr(total))
         THEN PageScanRatio(d, e + 1, total)
    ELSE OrElse(ExtractExactRatio(Strip(InnerText(d, e)), total),
                PageScanRatio(d, e + 1, total))

\* The handler's loop over parent.find_elements(".//*"), the value as it is.
RECURSIVE PartialDescendantRatio(_, _, _, _)
PartialDescendantRatio(d, card, e, total) ==
    IF e > Len(d.parent) THEN None
    ELSE IF e = card \/ ~IsInSubtree(d, e, card)
         THEN PartialDescendantRatio(d, card, e + 1, total)
    ELSE OrElse(ExtractExactRatio(InnerText(d, e), total),
                PartialDescendantRatio(d, card, e + 1, total))

\* The handler's search in the card of one div that holds the label: the
\* card's text, then its descendants.
PartialCardRatio(d, card, total) ==
    OrElse(ExtractExactRatio(InnerText(d, card), total),
           PartialDescendantRatio(d, card, 1, total))

\* for div in driver.find_elements("//div[text()]"): if site_name.lower() in
\* t.lower(): ... the first ratio found this way.
RECURSIVE PartialMatchRatio(_, _, _, _)
PartialMatchRatio(d, e, label, total) ==
    IF e > Len(d.parent) THEN None
    ELSE IF d.tag[e] # "div" \/ d.own[e] = <<>>
              \/ ~ContainsSub(Lower(Strip(InnerText(d, e))), Lower(label))
         THEN PartialMatchRatio(d, e + 1, label, total)
    ELSE OrElse(PartialCardRatio(d, LooseCard(d, e), total),
                PartialMatchRatio(d, e + 1, label, total))

LooseTitleTexts == {<<"a">>, <<"A">>, <<"a", "b">>, <<"b">>}

LooseValueTexts == ValueTexts \cup {<<"2", " ", "/", " ", "3">>}

LeafTags == {"div", "span"}

\* body(1) holds two div cards: 2 = {title 3, value 4} and 5 = {title 6, value 7}.
LooseDocs ==
    {[parent |-> <<0, 1, 2, 2, 1, 5, 5>>,
      own |-> <<<<>>, <<>>, t1, v1, <<>>, t2, v2>>,
      tag |-> <<"body", "div", g1, "span", c2, g2, "span">>] :
        t1 \in LooseTitleTexts, v1 \in LooseValueTexts,
        t2 \in LooseTitleTexts, v2 \in LooseValueTexts,
        g1 \in LeafTags, g2 \in LeafTags, c2 \in {"div", "section"}}

\* The record of the check after the attempt named name gave r.
LooseAfter(l, name, r) ==
    [l EXCEPT !.attempts = Append(@, name),
              !.out = IF r = None THEN <<>> ELSE Some([exc |-> "", ratio |-> r])]

\* return ratio when there is one, else on to the next attempt.
LoosePcAfter(r, next) == IF r = None THEN next ELSE "loose_done"

\* The handler's end: return ratio, or raise the TimeoutException again.
LooseEnd(l, r) ==
    [l EXCEPT !.attempts = Append(@, "partial_match"),
              !.out = IF r = None THEN Some(Raised("TimeoutException"))
                      ELSE Some([exc |-> "", ratio |-> r])]

InitLoose ==
    /\ text = <<>> /\ expected_total = 0 /\ ratio = None /\ rpc = "idle"
    /\ doc \in LooseDocs
    /\ results = <<>> /\ site_i = 0
    /\ pc = "loose_title"
    /\ SchedulerIdle
    /\ summary = None /\ alert = <<>> /\ popup_ret = None /\ alert_repeated = FALSE
    /\ \E i \in 1..Len(Sites) :
           loose = [site |-> Sites[i], card |-> 0, attempts |-> <<>>, out |-> <<>>]
    /\ nm = NoNm

\* The wait for the label, then the climb to the card; a wait that times out
\* raises TimeoutException into the handler.
LooseLocate ==
    /\ pc = "loose_title"
    /\ IF LooseFindTitle(doc, loose.site.label) = 0
       THEN pc' = "loose_fallback" /\ loose' = loose
       ELSE /\ pc' = "loose_card_text"
            /\ loose' = [loose EXCEPT
                   !.card = LooseCard(doc, LooseFindTitle(doc, loose.site.label))]
    /\ UNCHANGED <<ratioVars, nm, outVars, cycleVars, schedVars>>

\* 1) the whole text of the card
LooseCardText ==
    /\ pc = "loose_card_text"
    /\ loose' = LooseAfter(loose, "card_text",
           ExtractExactRatio(InnerText(doc, loose.card), loose.site.expected_total))
    /\ pc' = LoosePcAfter(
           ExtractExactRatio(InnerText(doc, loose.card), loose.site.expected_total),
           "loose_descendants")
    /\ UNCHANGED <<ratioVars, nm, outVars, cycleVars, schedVars>>

\* 2) the descendants inside the card
LooseDescendants ==
    /\ pc = "loose_descendants"
    /\ loose' = LooseAfter(loose, "descendants",
           LooseDescendantRatio(doc, loose.card, 1, loose.site.expected_total))
    /\ pc' = LoosePcAfter(
           LooseDescendantRatio(doc, loose.card, 1, loose.site.expected_total),
           "loose_page_scan")
    /\ UNCHANGED <<ratioVars, nm, outVars, cycleVars, schedVars>>

\* 3) the elements of the whole page that hold "/expected_total"; with no
\* ratio there, raise TimeoutException, which the handler catches.
LoosePageScan ==
    /\ pc = "loose_page_scan"
    /\ loose' = LooseAfter(loose, "page_scan",
           PageScanRatio(doc, 1, loose.site.expected_total))
    /\ pc' = LoosePcAfter(PageScanRatio(doc, 1, loose.site.expected_total),
                          "loose_fallback")
    /\ UNCHANGED <<ratioVars, nm, outVars, cycleVars, schedVars>>

\* except TimeoutException: the partial label match over the divs of the page.
LooseFallback ==
    /\ pc = "loose_fallback"
    /\ loose' = LooseEnd(loose,
           PartialMatchRatio(doc, 1, loose.site.label, loose.site.expected_total))
    /\ pc' = "loose_done"
    /\ UNCHANGED <<ratioVars, nm, outVars, cycleVars, schedVars>>

NextLoose ==
    \/ LooseLocate
    \/ LooseCardText
    \/ LooseDescendants
    \/ LoosePageScan
    \/ LooseFallback

SpecLoose == InitLoose /\ [][NextLoose]_vars

(***************************************************************************)
(* Properties of the extraction.                                           *)
(***************************************************************************)
\* The numerators of the pairs of the text whose denominator is expected_total.
ExactNumerators ==
    LET pairs == FindAll(text)
    IN  {pairs[k].n : k \in {j \in 1..Len(pairs) : pairs[j].d = expected_total}}

SaneNumerators == {n \in ExactNumerators : n <= expected_total}

\* C1: _extract_exact_ratio returns None or a ratio 'N/D' whose denominator D,
\* read back from the returned string, equals expected_total.
C1_DenominatorIsExpected ==
    (rpc = "done" /\ ratio # None) =>
        /\ ParseRatio(ratio[1]) # None
        /\ ParseRatio(ratio[1])[1].d = expected_total

C1_Witness ==
    /\ rpc = "done"
    /\ ratio # None
    /\ \E k \in 1..Len(FindAll(text)) : FindAll(text)[k].d # expected_total

\* C2: the returned numerator is the largest numerator <= expected_total among the
\* exact-denominator pairs, and only when there is none the largest numerator of
\* all exact-denominator pairs; '99/66 66/66' with 66 gives 66/66 and
\* '65/66 connected, see also 40/40' with 66 gives 65/66.
C2_SelectsLargestSane ==
    (rpc = "done" /\ ratio # None) =>
        LET r == ParseRatio(ratio[1])[1].n
            pool == IF SaneNumerators # {} THEN SaneNumerators ELSE ExactNumerators
        IN  /\ r \in pool
            /\ \A m \in pool : m <= r
            /\ (text = Text_99_66_66_66 /\ expected_total = 66)
                    => ratio = Some(<<"6", "6", "/", "6", "6">>)
            /\ (text = Text_65_66_40_40 /\ expected_total = 66)
                    => ratio = Some(<<"6", "5", "/", "6", "6">>)

C2_Witness ==
    /\ rpc = "done"
    /\ ratio # None
    /\ SaneNumerators # {}
    /\ \E n \in ExactNumerators : n > expected_total

\* C3: _extract_exact_ratio returns None exactly when the text holds no pair whose
\* denominator is expected_total; None for the empty text and for '40/40' with 66.
C3_AbsentIffNoExactPair ==
    rpc = "done" =>
        /\ (ratio = None) <=> (ExactNumerators = {})
        /\ text = <<>> => ratio = None
        /\ (text = Text_40_40 /\ expected_total = 66) => ratio = None

C3_Witness ==
    /\ rpc = "done"
    /\ ratio = None
    /\ FindAll(text) # <<>>

\* C4: with expected_total = 0 the call is rejected: no ratio is returned.
C4_ZeroTotalRejected ==
    (rpc = "done" /\ expected_total = 0) => ratio = None

(***************************************************************************)
(* Properties of one cycle.                                                *)
(***************************************************************************)
\* C5: every 'success' result of a cycle has total equal to the expected_total
\* configured for its site, whatever the page holds.
C5_SuccessTotalIsExpected ==
    \A i \in 1..Len(results) :
        results[i].status = "success" =>
            results[i].total = Some(Sites[i].expected_total)

\* A site succeeded although its card also shows a ratio of another
\* denominator.
C5_Witness ==
    /\ pc = "returned"
    /\ \E i \in 1..Len(results) :
           /\ results[i].status = "success"
           /\ \E e \in Elements(doc) :
                  /\ FindAll(doc.own[e]) # <<>>
                  /\ FindAll(doc.own[e])[1].d # Sites[i].expected_total
                  /\ IsInSubtree(doc, e,
                                 FindCard(doc, FindTitle(doc, Sites[i].label), 0).card)

\* C6: the cycle returns one result per configured site, in configured order,
\* result i carrying the label of site i; a site whose check raised is recorded
\* as an 'error' result for that site only, and each result is the outcome of
\* its own site's check on the page, whatever happened to the sites before it.
C6_OneResultPerSiteInOrder ==
    /\ Len(results) = site_i
    /\ pc = "returned" => Len(results) = Len(Sites)
    /\ \A i \in 1..Len(results) :
           /\ results[i].site = Sites[i].label
           /\ results[i].status \in {"success", "error"}
           /\ \E stale \in {0} \cup Elements(doc) :
                  LET out == CheckSiteBatteries(doc, Sites[i].label,
                                                Sites[i].expected_total, stale)
                  IN  /\ out.exc = results[i].error
                      /\ out.ratio = results[i].ratio
                      /\ (results[i].status = "error") <=> (out.exc # "")

\* Three sites of which the second fails: success, error, success.
C6_Witness ==
    /\ pc = "returned"
    /\ Len(results) = 3
    /\ results[1].status = "success"
    /\ results[2].status = "error"
    /\ results[3].status = "success"

(***************************************************************************)
(* Properties of the scheduler, under Spec.                                *)
(***************************************************************************)
WaitPcs == {"sleep_check", "sleeping", "post_wait"}

\* C7: when the STOP file appears during the wait between two cycles and
\* stays, at most one more one-second sleep step completes, no second one
\* begins, the scheduler leaves its loop from the wait and neither a cycle
\* nor a browser session starts.
C7_StopDuringWaitExits ==
    stop_phase = "wait" =>
        /\ sleeps_since_stop <= 1
        /\ (sleeps_since_stop = 1 => pc # "sleeping")
        /\ pc \in WaitPcs \cup {"exited"}
        /\ (pc = "exited" => exit_reason = "stop_during_wait")
        /\ ~driver

\* The STOP file appeared while a sleep step was under way, that step
\* completed, and the scheduler exited with part of the wait left.
C7_Witness ==
    /\ stop_phase = "wait"
    /\ sleeps_since_stop = 1
    /\ pc = "exited"
    /\ remaining > 0

C9_CycleErrorNeverEndsLoop ==
    exit_reason # "fatal"

\* C10: no cycle starts (no browser session is opened) while steps of the
\* preceding wait are still to be slept.
C10_NoCycleBeforeWaitElapsed ==
    driver => remaining = 0


\* C11: when the STOP file is present as the loop is about to begin a cycle,
\* the scheduler leaves the loop with no session acquired and no site
\* checked; with the STOP file present from the start and staying, no cycle
\* runs at all.
C11_StopBeforeCycleExits ==
    /\ [](stop_phase = "start" =>
             /\ pc \in {"loop_top", "exited"}
             /\ (pc = "exited" => exit_reason = "stop_before_cycle")
             /\ live_sessions = 0 /\ ~driver
             /\ doc = NoDoc /\ results = <<>> /\ site_i = 0)
    /\ [][(pc = "loop_top" /\ stop /\ pc' # "loop_top") =>
             /\ pc' = "exited"
             /\ exit_reason' = "stop_before_cycle"
             /\ live_sessions' = live_sessions /\ ~driver'
             /\ results' = <<>> /\ doc' = NoDoc]_vars

\* The STOP file was there from the start and the scheduler exited at the
\* head of its first pass.
C11_Witness ==
    /\ stop_phase = "start"
    /\ pc = "exited"
    /\ exit_reason = "stop_before_cycle"

\* C12: every cycle opens its own session and quits it before the wait, on
\* success and on cycle error alike: never more than one session is live, one
\* is live exactly between setup_driver and driver.quit(), none during the
\* wait, none once main_continuous has left its loop.
C12_OneSessionPerCycle ==
    /\ live_sessions \in {0, 1}
    /\ driver <=> live_sessions = 1
    /\ pc \in {"login", "check", "quit"} <=> live_sessions = 1
    /\ pc \in WaitPcs \cup {"exited", "loop_top", "setup", "after_cycle"} =>
           live_sessions = 0

\* The wait after a cycle that ended in a cycle error: its session is gone.
C12_Witness ==
    /\ pc = "sleeping"
    /\ cycle_error
    /\ live_sessions = 0


(***************************************************************************)
(* Properties of the summary and the alert, under SpecMain.                *)
(***************************************************************************)
\* The first position from i on where c stands in s, 0 when there is none.
RECURSIVE IndexOf(_, _, _)
IndexOf(s, c, i) ==
    IF i > Len(s) THEN 0 ELSE IF s[i] = c THEN i ELSE IndexOf(s, c, i + 1)

\* A decimal numeral with an optional minus sign, read back.
ParseSigned(s) ==
    IF s # <<>> /\ Head(s) = "-" THEN 0 - ToInt(Tail(s)) ELSE ToInt(s)

\* A line "<site>: <current>/<total> (<word>: <deficit>)" read back.
LineFieldsAt(line, colon, slash, open, wordEnd, close) ==
    [site |-> SubSeq(line, 1, colon - 1),
     current |-> ParseSigned(SubSeq(line, colon + 2, slash - 1)),
     total |-> ParseSigned(SubSeq(line, slash + 1, open - 2)),
     word |-> SubSeq(line, open + 1, wordEnd - 1),
     deficit |-> ParseSigned(SubSeq(line, wordEnd + 2, close - 1))]

LineFieldsFrom(line, colon) ==
    LineFieldsAt(line, colon, IndexOf(line, "/", colon), IndexOf(line, "(", colon),
                 IndexOf(line, ":", colon + 1), IndexOf(line, ")", colon))

LineFields(line) == LineFieldsFrom(line, IndexOf(line, ":", 1))

DisconnectedSuccess(r) == r.status = "success" /\ r.all_connected = Some(FALSE)

LineMatches(line, r) ==
    /\ LineFields(line).site = r.site
    /\ LineFields(line).current = r.current[1]
    /\ LineFields(line).total = r.total[1]
    /\ LineFields(line).deficit = r.total[1] - r.current[1]

AlertMatches(lines, dis) ==
    /\ Len(lines) = Len(dis)
    /\ \A k \in 1..Len(dis) : LineMatches(lines[k], dis[k])

\* C13: popup_disconnected builds one line for each result that is a success
\* with all_connected false and for no other, in the order of the cycle, each
\* line showing the site, its current, its total and total - current; with no
\* such result it builds no line and returns False.
C13_AlertListsDisconnected ==
    popup_ret # None =>
        /\ AlertMatches(alert, SelectSeq(results, DisconnectedSuccess))
        /\ (SelectSeq(results, DisconnectedSuccess) = <<>> =>
                alert = <<>> /\ popup_ret = Some(FALSE))

\* Two disconnected sites around a failed one: two lines.
C13_Witness ==
    /\ popup_ret # None
    /\ Len(alert) = 2
    /\ Len(results) = 3
    /\ results[2].status = "error"

\* The site named at the head of a line of the summary's list.
ListedSite(line) == LineFields(SubSeq(line, 5, Len(line))).site

\* C14: a site whose check failed has all_connected None, no line in the
\* alert and none in the summary's list of disconnected sites, and is counted
\* by print_summary under errors only: the three counts partition the results.
C14_ErrorIsThirdOutcome ==
    summary # None =>
        /\ \A i \in 1..Len(results) :
               results[i].status = "error" =>
                   /\ results[i].all_connected = None
                   /\ \A k \in 1..Len(alert) :
                          LineFields(alert[k]).site # results[i].site
                   /\ \A k \in 1..Len(summary[1].listed) :
                          ListedSite(summary[1].listed[k]) # results[i].site
        /\ summary[1].err = Cardinality({i \in 1..Len(results) : results[i].status = "error"})
        /\ summary[1].ok + summary[1].disc =
               Cardinality({i \in 1..Len(results) : results[i].status = "success"})
        /\ summary[1].ok + summary[1].disc + summary[1].err = Len(results)
        /\ Len(summary[1].listed) = summary[1].disc

\* A cycle with a connected, a failed and a disconnected site.
C14_Witness ==
    /\ summary # None
    /\ summary[1].ok = 1
    /\ summary[1].err = 1
    /\ summary[1].disc = 1
    /\ Len(alert) = 1


MainPcs == {"main_setup", "main_login", "check", "returned", "main_quit", "main_exit"}

\* C15: the single pass acquires a session once, runs one cycle and leaves
\* without any wait; it fails only when setup_driver or login raised, never
\* because sites failed: then all sites have a result, the summary was
\* logged, main returned, and in every case the session it opened is released.
C15_SinglePassCompletes ==
    /\ [](/\ pc \in MainPcs
          /\ live_sessions \in {0, 1}
          /\ wait_sec = 0 /\ remaining = 0 /\ clock = 0
          /\ (pc = "main_exit" => live_sessions = 0 /\ ~driver)
          /\ (exit_reason = "raised" => results = <<>> /\ summary = None)
          /\ (pc = "main_exit" /\ exit_reason = "returned" =>
                  Len(results) = Len(Sites) /\ summary # None))
    /\ [][live_sessions' > live_sessions => pc = "main_setup"]_vars
    /\ [][pc' = "main_setup" => pc = "main_setup"]_vars
    /\ [][(pc' = "check" /\ pc # "check") => pc = "main_login"]_vars

\* Sites failed and main returned all the same.
C15_Witness ==
    /\ pc = "main_exit"
    /\ exit_reason = "returned"
    /\ live_sessions = 0
    /\ \E i \in 1..Len(results) : results[i].status = "error"
    /\ \E i \in 1..Len(results) : results[i].status = "success"


\* C16: in main_continuous the alert of a cycle is built from that cycle's
\* results alone: whenever popup_disconnected ran, its lines are the
\* disconnected successes of the results just collected, all of them, also
\* when the alert before listed the very same lines.
C16_AlertIsStateless ==
    /\ [](popup_ret # None =>
             /\ AlertMatches(alert, SelectSeq(results, DisconnectedSuccess))
             /\ (SelectSeq(results, DisconnectedSuccess) # <<>> => alert # <<>>))
    /\ [][(popup_ret = None /\ popup_ret' # None) =>
             /\ AlertMatches(alert', SelectSeq(results', DisconnectedSuccess))
             /\ (alert_repeated' => alert' = alert /\ alert' # <<>>)]_vars

\* A cycle alerted the lines the cycle before it had alerted.
C16_Witness ==
    /\ pc = "quit"
    /\ popup_ret # None
    /\ alert_repeated
    /\ Len(alert) = 2


(***************************************************************************)
(* Properties of the card search, under SpecCycle.                         *)
(***************************************************************************)
\* The pair n/d is one of the ratios written in txt.
PairIn(pairs, n, d) == \E k \in 1..Len(pairs) : pairs[k].n = n /\ pairs[k].d = d

DenominatorIn(pairs, d) == \E k \in 1..Len(pairs) : pairs[k].d = d

\* The card of site i on the page, when nothing went stale.
CardOf(i) == FindCard(doc, FindTitle(doc, Sites[i].label), 0)

CardLocated(i) == FindTitle(doc, Sites[i].label) # 0 /\ CardOf(i).exc = ""

\* C17: a ratio returned for a site is written in the text of the card
\* located for the site's label; when the card's text holds no ratio of the
\* expected denominator the check returns none, whatever stands elsewhere on
\* the page, and ends in TimeoutException (or in the exception of a reference
\* gone stale).
C17_RatioComesFromCard ==
    \A i \in 1..Len(results) :
        /\ results[i].status = "success" =>
               /\ CardLocated(i)
               /\ PairIn(FindAll(InnerText(doc, CardOf(i).card)),
                         results[i].current[1], results[i].total[1])
        /\ (CardLocated(i)
              /\ ~DenominatorIn(FindAll(InnerText(doc, CardOf(i).card)),
                                Sites[i].expected_total)) =>
               /\ results[i].status = "error"
               /\ results[i].error \in {"TimeoutException", "StaleElementReferenceException"}

\* A site timed out although its ratio stands on the page, outside its card.
C17_Witness ==
    \E i \in 1..Len(results) :
        /\ results[i].error = "TimeoutException"
        /\ CardLocated(i)
        /\ \E e \in Elements(doc) :
               /\ ~IsInSubtree(doc, e, CardOf(i).card)
               /\ DenominatorIn(FindAll(doc.own[e]), Sites[i].expected_total)


(***************************************************************************)
(* Properties of the earlier check_site_batteries, under SpecLoose.        *)
(***************************************************************************)
\* How wide an attempt searches: 1 the card's text, 2 the card's descendants,
\* 3 the widened label match, 4 the whole page.
AttemptRank(name) ==
    CASE name = "card_text" -> 1
      [] name = "descendants" -> 2
      [] name = "partial_match" -> 3
      [] name = "page_scan" -> 4

\* C19: the attempts run in widening order, and the scan of the whole page
\* runs only after the widened label match has run and found nothing.
C19_AttemptsWiden ==
    /\ \A j \in 1..Len(loose.attempts) : \A k \in j..Len(loose.attempts) :
           AttemptRank(loose.attempts[j]) <= AttemptRank(loose.attempts[k])
    /\ \A k \in 1..Len(loose.attempts) :
           loose.attempts[k] = "page_scan" =>
               \E j \in 1..(k - 1) : loose.attempts[j] = "partial_match"


(***************************************************************************)
(* The climb to the card, under SpecCycle.                                 *)
(***************************************************************************)
\* The nearest card-sized ancestor of e among its first hops ancestors, 0
\* when there is none or the root is passed first.
RECURSIVE NearestCardSized(_, _, _)
NearestCardSized(d, e, hops) ==
    IF hops = 0 \/ d.parent[e] = 0 THEN 0
    ELSE IF IsCardSized(d.rect[d.parent[e]]) THEN d.parent[e]
    ELSE NearestCardSized(d, d.parent[e], hops - 1)

\* The card as claimed: that ancestor, else the immediate parent of the label.
ClaimedCardFrom(d, title, near) == IF near # 0 THEN near ELSE d.parent[title]

ClaimedCard(i) ==
    ClaimedCardFrom(doc, FindTitle(doc, Sites[i].label),
                    NearestCardSized(doc, FindTitle(doc, Sites[i].label), ClimbLimit))

\* C20: for a label that is on the page the climb never fails: the card is
\* the nearest ancestor wider than 220 and higher than 140 among the first 10,
\* else the label's parent, also when the root is reached before the bound;
\* the site's outcome is that of the search in this card.
C20_ClimbFallsBackToParent ==
    \A i \in 1..Len(results) :
        FindTitle(doc, Sites[i].label) # 0 =>
            /\ results[i].error # "NoSuchElementException"
            /\ results[i].status = "success" =>
                   PairIn(FindAll(InnerText(doc, ClaimedCard(i))),
                          results[i].current[1], results[i].total[1])

(***************************************************************************)
(* Failures of a site check, under SpecCycle.                              *)
(***************************************************************************)
\* C21: a stale element reference met during a site check is recovered
\* inside the check and never surfaces: no result carries it as its error.
C21_StaleNeverSurfaces ==
    \A i \in 1..Len(results) :
        results[i].error # "StaleElementReferenceException"

\* The search of site i has nothing to find: its label is not on the page, or
\* the card located for it holds no ratio of the expected denominator.
NothingToFind(i) ==
    \/ FindTitle(doc, Sites[i].label) = 0
    \/ /\ CardLocated(i)
       /\ ~DenominatorIn(FindAll(InnerText(doc, CardOf(i).card)), Sites[i].expected_total)

\* C22: a site whose search ran to its end without a ratio of the expected
\* denominator is recorded as an error with TimeoutException and with ratio,
\* current and total None, never with a substitute value; TimeoutException is
\* recorded for no other site; and the failure stays inside the cycle, which
\* has one result for every site taken.
C22_ExhaustedIsTimeout ==
    /\ Len(results) = site_i
    /\ \A i \in 1..Len(results) :
           /\ (NothingToFind(i)
                 /\ results[i].error \notin {"StaleElementReferenceException",
                                             "NoSuchElementException"}) =>
                  /\ results[i].status = "error"
                  /\ results[i].error = "TimeoutException"
                  /\ results[i].ratio = None
                  /\ results[i].current = None /\ results[i].total = None
           /\ results[i].error = "TimeoutException" => NothingToFind(i)
           /\ results[i].status = "error" => results[i].ratio = None

\* A site timed out although its card shows a ratio, of another denominator,
\* and the cycle went on to return all its results.
C22_Witness ==
    /\ pc = "returned"
    /\ \E i \in 1..(Len(results) - 1) :
           /\ results[i].error = "TimeoutException"
           /\ CardLocated(i)
           /\ FindAll(InnerText(doc, CardOf(i).card)) # <<>>

\* C23: a STOP file that appears while a cycle runs does not interrupt it.
\* The cycle ends on its own: unless it raised, every site has been checked,
\* the summary printed and the alert evaluated; the session is then released;
\* the wait that follows sleeps no step, and only the check after the wait
\* ends the scheduler.
C23_StopDuringCycleIsCooperative ==
    /\ [](stop_phase = "cycle" =>
            /\ sleeps_since_stop = 0
            /\ pc \notin {"sleeping", "loop_top", "setup"}
            /\ pc = "exited" =>
                   /\ exit_reason = "stop_during_wait"
                   /\ ~driver /\ live_sessions = 0)
    /\ [][(stop_phase = "cycle" /\ pc \in {"login", "check"} /\ pc' # pc) =>
              /\ pc' \in {"check", "quit"}
              /\ (pc' = "quit" /\ ~cycle_error') =>
                     /\ Len(results') = Len(Sites)
                     /\ summary' = Some(PrintSummary(results'))
                     /\ alert' = PopupLines(results')
                     /\ popup_ret' # None]_vars
    /\ [][(stop_phase = "cycle" /\ pc = "quit" /\ pc' # pc) =>
              /\ pc' = "after_cycle"
              /\ ~driver' /\ live_sessions' = 0]_vars

C23_Witness ==
    /\ stop_phase = "cycle"
    /\ pc = "exited"
    /\ ~cycle_error
    /\ wait_sec > 0
    /\ alert # <<>>

(***************************************************************************)
(* get_nm_for_site, the in-card finder: the title found exactly, the climb *)
(* of at most NmClimbLimit hops, then the settle loop over the candidates  *)
(* of the card.  Time in the settle loop is counted in tenths of a second. *)
(***************************************************************************)
NmClimbLimit == 8

SettleWindow == 20

PollSleep == 1

MaxPollDelay == 1

\* parse_ratio: the first match of _RATIO_RE in s as (n, m), None without one.
ParseRatioSearch(s) == IF FindAll(s) = <<>> THEN None ELSE Some(FindAll(s)[1])

\* ord(c) of the characters the pages hold.
CharCode(c) ==
    CASE c = "\t" -> 9 [] c = "\n" -> 10 [] c = "\r" -> 13 [] c = " " -> 32
      [] c = "/" -> 47
      [] c \in DigitChars -> 48 + DigitVal(c)
      [] c = "A" -> 65 [] c = "B" -> 66
      [] c = "a" -> 97 [] c = "b" -> 98

\* a < b for two str
RECURSIVE TextLess(_, _)
TextLess(a, b) ==
    IF b = <<>> THEN FALSE
    ELSE IF a = <<>> THEN TRUE
    ELSE IF Head(a) # Head(b) THEN CharCode(Head(a)) < CharCode(Head(b))
    ELSE TextLess(Tail(a), Tail(b))

\* score = (0 if f"/{expected_total}" in txt else 1, len(txt)), and the item
\* (score, txt, val) appended for it.
Item(txt, val, total) ==
    [flag |-> IF ContainsSub(txt, <<"/">> \o IntToStr(total)) THEN 0 ELSE 1,
     txt |-> txt, val |-> val]

\* x < y as items.sort() compares the tuples: the flag, the length, the text
\* (equal texts have equal values).
ItemLess(x, y) ==
    \/ x.flag < y.flag
    \/ x.flag = y.flag /\ Len(x.txt) < Len(y.txt)
    \/ x.flag = y.flag /\ Len(x.txt) = Len(y.txt) /\ TextLess(x.txt, y.txt)

\* txt = " ".join(el.text.split())
JoinedText(d, e) == NormalizeSpace(InnerText(d, e))

\* The elements candidates() keeps: the descendants of the card whose string
\* value holds a slash and whose text parses; a stale one is skipped.
CandidateElements(d, card, stale) ==
    {e \in Elements(d) :
        /\ e # card /\ IsInSubtree(d, e, card) /\ StringValueHasSlash(d, e)
        /\ e # stale
        /\ ParseRatioSearch(JoinedText(d, e)) # None}

\* candidates(): the items, as a set.
Candidates(d, card, total, stale) ==
    {Item(JoinedText(d, e), ParseRatioSearch(JoinedText(d, e))[1], total) :
        e \in CandidateElements(d, card, stale)}

\* cands[0] of the sorted list.
FirstItem(cands) == CHOOSE x \in cands : \A y \in cands : x = y \/ ItemLess(x, y)

NmRaised(exc) == Some([exc |-> exc, val |-> None])

\* return n, m, txt
NmReturn(item) == Some([exc |-> "", val |-> Some(item)])

\* if m == expected_total or n != 0: break
AcceptsEarly(item, total) == item.val.d = total \/ item.val.n # 0

\* The ends of the settle loop's body, best being cands[0]: accepted and
\* returned, or kept while the loop sleeps.
NmAfterCandidates(n, best, late) ==
    IF AcceptsEarly(best, n.site.expected_total)
    THEN [n EXCEPT !.best = Some(best), !.out = NmReturn(best)]
    ELSE [n EXCEPT !.best = Some(best), !.t = @ + late + PollSleep]

\* One pass of the settle loop over the candidates cands.
NmAfterPoll(n, cands, late) ==
    IF cands = {} THEN [n EXCEPT !.t = @ + late + PollSleep]
    ELSE NmAfterCandidates(n, FirstItem(cands), late)

\* After the loop: if not best: raise TimeoutException; return n, m, txt
NmAfterWindow(n) ==
    [n EXCEPT !.out = IF n.best = None THEN NmRaised("TimeoutException")
                      ELSE NmReturn(n.best[1])]

NmValueTexts ==
    {<<>>, <<"0", "/", "2">>, <<"1", "/", "2">>, <<"2", "/", "3">>,
     <<"1", "/", "3", "0">>}

\* root(1) holds the card 2 = {title 3, values 4 and 5}.
NmDocs ==
    {[parent |-> <<0, 1, 2, 2, 2>>,
      own |-> <<<<>>, <<>>, t, v1, v2>>,
      rect |-> <<r1, r2, LeafRect, LeafRect, LeafRect>>] :
        t \in {<<"a">>, <<"b">>}, v1 \in NmValueTexts, v2 \in NmValueTexts,
        r1 \in BoxRects, r2 \in BoxRects}

\* The pages the page d may have become a poll later: one value rendered anew.
Rerendered(d) ==
    {d2 \in NmDocs :
        /\ d2.rect = d.rect /\ d2.own[3] = d.own[3]
        /\ d2.own[4] = d.own[4] \/ d2.own[5] = d.own[5]}

InitNm ==
    /\ text = <<>> /\ expected_total = 0 /\ ratio = None /\ rpc = "idle"
    /\ doc \in NmDocs
    /\ results = <<>> /\ site_i = 0
    /\ pc = "nm_title"
    /\ SchedulerIdle
    /\ summary = None /\ alert = <<>> /\ popup_ret = None /\ alert_repeated = FALSE
    /\ loose = NoLoose
    /\ \E i \in 1..Len(Sites) :
           nm = [site |-> Sites[i], card |-> 0, t |-> 0, best |-> None, out |-> None]

\* What the climb gave: the exception raised, or the card and the settle loop.
NmAfterClimb(n, up) ==
    IF up.exc # "" THEN [n EXCEPT !.out = NmRaised(up.exc)]
    ELSE [n EXCEPT !.card = up.card]

\* 1) the exact title, 2) the card ancestor; end = time.time() + 2.0
NmLocate ==
    /\ pc = "nm_title"
    /\ IF FindTitle(doc, nm.site.label) = 0
       THEN nm' = [nm EXCEPT !.out = NmRaised("TimeoutException")]
       ELSE \E stale \in {0} \cup Elements(doc) :
                nm' = NmAfterClimb(nm,
                          CardOrParent(doc, FindTitle(doc, nm.site.label),
                              ClimbFrom(doc, FindTitle(doc, nm.site.label),
                                        NmClimbLimit, stale)))
    /\ pc' = IF nm'.out # None THEN "nm_done" ELSE "nm_settle"
    /\ UNCHANGED <<ratioVars, loose, outVars, cycleVars, schedVars>>

\* while time.time() < end: one pass, up to the return of time.sleep(0.1).
\* A stale card makes card.find_elements raise; while the loop sleeps the page
\* may render on.
NmPoll ==
    /\ pc = "nm_settle"
    /\ nm.t < SettleWindow
    /\ \E stale \in {0, nm.card, 4}, late \in 0..MaxPollDelay :
           nm' = IF stale = nm.card
                 THEN [nm EXCEPT !.out = NmRaised("StaleElementReferenceException")]
                 ELSE NmAfterPoll(nm,
                          Candidates(doc, nm.card, nm.site.expected_total, stale),
                          late)
    /\ pc' = IF nm'.out # None THEN "nm_done" ELSE "nm_settle"
    /\ doc' \in IF nm'.out # None THEN {doc} ELSE Rerendered(doc)
    /\ UNCHANGED <<ratioVars, loose, outVars, results, site_i, schedVars>>

\* The window has closed.
NmWindowClosed ==
    /\ pc = "nm_settle"
    /\ nm.t >= SettleWindow
    /\ nm' = NmAfterWindow(nm)
    /\ pc' = "nm_done"
    /\ UNCHANGED <<ratioVars, loose, outVars, cycleVars, schedVars>>

NextNm == NmLocate \/ NmPoll \/ NmWindowClosed

SpecNm == InitNm /\ [][NextNm]_vars

\* C24: get_nm_for_site never returns a pair whose denominator differs from
\* expected_total.
C24_ReturnsExpectedDenominator ==
    (pc = "nm_done" /\ nm.out[1].exc = "") =>
        nm.out[1].val[1].val.d = nm.site.expected_total

\* C25: the interval is a start-to-start cadence.  With no STOP file and the
\* wait slept in full, a cycle that took less than the interval (session
\* acquisition included) is followed by the next pass of the loop one interval
\* after its own beginning, to within one second.
C25_StartToStartIsInterval ==
    (/\ pc = "post_wait"
     /\ stop_phase = "absent"
     /\ remaining = 0
     /\ cycle_start + elapsed < interval * TicksPerSecond) =>
        /\ clock >= interval * TicksPerSecond
        /\ clock <= (interval + 1) * TicksPerSecond

IsSuccessClass(r) ==
    /\ r.status = "success"
    /\ r.error = ""
    /\ r.ratio # None
    /\ r.current # None /\ r.total # None
    /\ r.current[1] \in Nat /\ r.total[1] \in Nat
    /\ r.all_connected = Some(r.current[1] = r.total[1])

IsErrorClass(r) ==
    /\ r.status = "error"
    /\ r.error # ""
    /\ r.current = None /\ r.total = None /\ r.all_connected = None

\* C26: every result of a cycle is in exactly one of two classes: a success
\* with integer current and total and all_connected = (current = total), or
\* an error with current, total and all_connected None.  A success without a
\* verdict does not occur, so the three counts of print_summary add up to the
\* number of configured sites.
C26_ResultsAreClassified ==
    /\ \A i \in 1..Len(results) :
           /\ IsSuccessClass(results[i]) \/ IsErrorClass(results[i])
           /\ ~(IsSuccessClass(results[i]) /\ IsErrorClass(results[i]))
           /\ ~(results[i].status = "success" /\ results[i].all_connected = None)
           /\ results[i].site = Sites[i].label
    /\ summary # None =>
           /\ Len(results) = Len(Sites)
           /\ summary[1].ok =
                  Cardinality({i \in 1..Len(results) :
                      IsSuccessClass(results[i]) /\ results[i].current = results[i].total})
           /\ summary[1].disc =
                  Cardinality({i \in 1..Len(results) :
                      IsSuccessClass(results[i]) /\ results[i].current # results[i].total})
           /\ summary[1].err =
                  Cardinality({i \in 1..Len(results) : IsErrorClass(results[i])})
           /\ summary[1].ok + summary[1].disc + summary[1].err = Len(Sites)

\* A summary over one result of each kind, the failed one a timeout.
C26_Witness ==
    /\ summary # None
    /\ \E i, j, k \in 1..Len(results) :
           /\ results[i].all_connected = Some(TRUE)
           /\ results[j].all_connected = Some(FALSE)
           /\ results[j].current[1] < results[j].total[1]
           /\ results[k].error = "TimeoutException"

====
